---- MODULE Spec2Model ----
(***************************************************************************)
(* Model of the kqueue emitter core of watchdog:                           *)
(*   src/src/watchdog/observers/kqueue.py   KeventDescriptorSet,           *)
(*                                          KeventDescriptor, KqueueEmitter*)
(*   src/src/watchdog/utils/dirsnapshot.py  DirectorySnapshot,             *)
(*                                          DirectorySnapshotDiff          *)
(*                                                                         *)
(* Paths are sequences of components below "/": "/w/a" is <<"w","a">>,     *)
(* "/" is <<>>.  A DirectorySnapshot object is the name of its sqlite file *)
(* (db_path): every query of the object reads that file when it is made.   *)
(* Every method is one action; an exception that leaves the method is      *)
(* recorded in `raised`, the events it put on the event queue in `queued`. *)
(***************************************************************************)
EXTENDS Integers, Sequences, FiniteSets, TLC

\* ---------------------------------------------------------------- bounds
\* The process's fd limit (ulimit -n), counted above the standard streams.
MaxFd == 3
\* Inode numbers the file system hands out.
MaxIno == 5
\* Writes to one file (each advances its mtime by one tick).
MaxMtime == 1
\* External file-system changes in one run.
MaxFsOps == 2
\* Calls of the emitter's methods in one run.
MaxCalls == 4
\* Steps of a cycle taken one by one in one run.
MaxSteps == 6
\* Calls of queue_event and on_thread_stop in one run.
MaxBook == 3
MaxXlate == 4
\* Calls of add, remove and clear on a descriptor set in one run.
MaxSetCalls == 4
\* Steps the threads of an emitter take in one run.
MaxThreadSteps == 7

\* ----------------------------------------------------------------- paths
ROOT == <<"w">>
PA == <<"w", "a">>
PB == <<"w", "b">>
PS == <<"w", "s">>
PX == <<"w", "s", "x">>
\* The order in which listdir is taken to return entries.
PathOrder == <<PA, PB, PS, PX>>
Paths == {ROOT} \cup {PathOrder[i] : i \in 1..Len(PathOrder)}
\* FileSystemEvent.dest_path of an event that is not a move: ''.
NoPath == <<"">>

dirname(p) == SubSeq(p, 1, Len(p) - 1)

RECURSIVE normpath(_)
normpath(p) ==
  IF p = <<>> THEN <<>>
  ELSE LET h == normpath(SubSeq(p, 1, Len(p) - 1))
           c == p[Len(p)]
       IN  IF c = "." \/ c = "" THEN h
           ELSE IF c = ".." THEN (IF h = <<>> THEN <<>> ELSE SubSeq(h, 1, Len(h) - 1))
           ELSE Append(h, c)

absolute_path(p) == normpath(p)

IsPrefix(r, p) == Len(r) <= Len(p) /\ SubSeq(p, 1, Len(r)) = r
\* p is the watch root or a path beneath it.
InRoot(p) == IsPrefix(ROOT, p)
\* p is strictly beneath d.
Below(d, p) == IsPrefix(d, p) /\ p # d

\* ------------------------------------------------------------ file system
\* A stat result; ino = 0 stands for "no such file".
NoEnt == [ino |-> 0, dev |-> 0, isdir |-> FALSE, mtime |-> 0, size |-> 0]
Exists(f, p) == p \in DOMAIN f /\ f[p].ino # 0

\* Descriptor-set organisation, the process's fd table and the kernel's
\* pending vnode notes per fd.
NoneErr == "none"
OpenErrnos == {"ENOENT", "EOPNOTSUPP"}
NoOracle == [path |-> NoPath, errno |-> NoneErr]
\* What the platform answers to the next os.open: it fails the open of one
\* chosen path with ENOENT (the file vanished after stat) or EOPNOTSUPP.
Oracles == {NoOracle} \cup {[path |-> p, errno |-> e] : p \in Paths, e \in OpenErrnos}

VARIABLES
  fs,                   \* path -> stat result of the file now at that path
  nextIno,              \* next inode number the file system hands out
  fsOps,                \* external changes made so far
  fdt,                  \* open fd -> [ino, reg, notes]: the open file, whether the
                        \* fd's kevent is registered with the kqueue, pending fflags
  descriptors,          \* KeventDescriptorSet._descriptors
  descriptor_for_path,  \* KeventDescriptorSet._descriptor_for_path
  descriptor_for_fd,    \* KeventDescriptorSet._descriptor_for_fd
  kevents,              \* KeventDescriptorSet._kevents (each kevent by its ident)
  held,                 \* the list a caller got from the kevents property and keeps
  kq_open,              \* KqueueEmitter._kq is open
  snapshot,             \* KqueueEmitter._snapshot: a db_path, or NoDb while unset
  db,                   \* db_path -> rows of table snapshot (path -> row)
  snaps,                \* the DirectorySnapshot objects constructed (their db_path)
  is_recursive,         \* watch.is_recursive
  event_list,           \* raw kernel events read and reversed, not yet translated
  fresh,                \* the snapshot object built since the kernel was last read
  calls,                \* operations called so far
  op,                   \* the last operation, with the arguments the claims read
  raised,               \* the exception that left the last operation, or "none"
  queued,               \* the events the last operation put on the event queue
  lock,                 \* KqueueEmitter._lock (an RLock): its owner and its count
  pc                    \* where each thread is in queue_events / on_thread_stop

vars == <<fs, nextIno, fsOps, fdt, descriptors, descriptor_for_path,
          descriptor_for_fd, kevents, held, kq_open, snapshot, db, snaps, is_recursive,
          event_list, fresh, calls, op, raised, queued, lock, pc>>

\* What the emitter and its collaborators hold; the threads' state.
progVars == <<fs, nextIno, fsOps, fdt, descriptors, descriptor_for_path,
              descriptor_for_fd, kevents, held, kq_open, snapshot, db, snaps,
              is_recursive, event_list, fresh, calls, op, raised, queued>>
thrVars == <<lock, pc>>

fsVars == <<fs, nextIno, fsOps>>
\* The descriptor set, with the list object a caller holds.
dsVars == <<descriptors, descriptor_for_path, descriptor_for_fd, kevents, held>>
snapVars == <<db, snaps>>

NoDb == "unset"
DbPaths == {"db1", "db2"}
EmptyTable == [p \in Paths |-> NoEnt]

\* ------------------------------------------------- functions as dictionaries
Put(f, k, v) == [x \in DOMAIN f \cup {k} |-> IF x = k THEN v ELSE f[x]]
Del(f, k) == [x \in DOMAIN f \ {k} |-> f[x]]
EmptyMap == [x \in {} |-> 0]

RECURSIVE RemoveFirst(_, _)
\* list.remove(x): the list without its first element equal to x.
RemoveFirst(s, x) ==
  IF s = <<>> THEN <<>>
  ELSE IF Head(s) = x THEN Tail(s)
  ELSE <<Head(s)>> \o RemoveFirst(Tail(s), x)

SeqSet(s) == {s[i] : i \in 1..Len(s)}
Min(S) == CHOOSE n \in S : \A m \in S : n <= m


\* ------------------------------------------------------- os.open / os.close
\* The record every descriptor operation works on: the four collections of the
\* descriptor set, the fd table, the events queued, the opens that failed
\* (<<path, errno>>), the exception raised, and whether self._kevents has been
\* bound to a new list object.
Cur ==
  [descriptors |-> descriptors, descriptor_for_path |-> descriptor_for_path,
   descriptor_for_fd |-> descriptor_for_fd, kevents |-> kevents, fdt |-> fdt,
   queued |-> <<>>, failed |-> {}, exc |-> NoneErr, rebound |-> FALSE]

FreeFds(t) == {n \in 1..MaxFd : n \notin DOMAIN t}

\* os.open(path, WATCHDOG_OS_OPEN_FLAGS): the lowest free fd, or an errno.
os_open(f, t, path, oracle) ==
  IF oracle.path = absolute_path(path) /\ oracle.errno # NoneErr
    THEN [errno |-> oracle.errno, fd |-> 0]
  ELSE IF ~Exists(f, absolute_path(path)) THEN [errno |-> "ENOENT", fd |-> 0]
  ELSE IF FreeFds(t) = {} THEN [errno |-> "EMFILE", fd |-> 0]
  ELSE [errno |-> NoneErr, fd |-> Min(FreeFds(t))]

\* KeventDescriptor.close: os.close(fd), OSError swallowed.  Closing an fd drops
\* its kevent registration and its pending notes.
close(t, fd) == IF fd \in DOMAIN t THEN Del(t, fd) ELSE t

\* ---------------------------------------------------- KeventDescriptorSet
SameKey(d, e) == d.path = e.path /\ d.is_directory = e.is_directory

add_descriptor_mut(r, d) ==
  [r EXCEPT
     !.descriptors = IF \E e \in @ : SameKey(d, e) THEN @ ELSE @ \cup {d},
     !.kevents = <<d.fd>> \o @,
     !.descriptor_for_path = Put(@, d.path, d),
     !.descriptor_for_fd = Put(@, d.fd, d)]

\* KeventDescriptorSet._add_descriptor.
add_descriptor(r, d) ==
  [r EXCEPT
     !.descriptors = IF \E e \in @ : SameKey(d, e) THEN @ ELSE @ \cup {d},
     !.kevents = Append(@, d.fd),
     !.descriptor_for_path = Put(@, d.path, d),
     !.descriptor_for_fd = Put(@, d.fd, d)]

remove_descriptor_mut(r, d) ==
  [r EXCEPT
     !.descriptors = {e \in @ : ~SameKey(d, e)},
     !.descriptor_for_fd = Del(@, d.fd),
     !.descriptor_for_path = Del(@, d.path),
     !.kevents = RemoveFirst(@, d.fd)]

\* KeventDescriptorSet._remove_descriptor.
remove_descriptor(r, d) ==
  IF ~\E e \in r.descriptors : SameKey(d, e) THEN [r EXCEPT !.exc = "KeyError"]
  ELSE LET r1 == [r EXCEPT !.descriptors = {e \in @ : ~SameKey(d, e)}] IN
  IF d.fd \notin DOMAIN r1.descriptor_for_fd THEN [r1 EXCEPT !.exc = "KeyError"]
  ELSE LET r2 == [r1 EXCEPT !.descriptor_for_fd = Del(@, d.fd)] IN
  IF d.path \notin DOMAIN r2.descriptor_for_path THEN [r2 EXCEPT !.exc = "KeyError"]
  ELSE LET r3 == [r2 EXCEPT !.descriptor_for_path = Del(@, d.path)] IN
  IF d.fd \notin SeqSet(r3.kevents) THEN [r3 EXCEPT !.exc = "ValueError"]
  ELSE [r3 EXCEPT !.kevents = RemoveFirst(@, d.fd), !.fdt = close(@, d.fd)]

add_mut(r, f, path, is_directory, oracle) ==
  LET p == absolute_path(path)
      o == os_open(f, r.fdt, path, oracle)
  IN  IF o.errno # NoneErr
        THEN [r EXCEPT !.exc = o.errno, !.failed = @ \cup {<<p, o.errno>>}]
      ELSE add_descriptor(
             [r EXCEPT !.fdt = Put(@, o.fd, [ino |-> f[p].ino, reg |-> FALSE, notes |-> {}])],
             [path |-> p, is_directory |-> is_directory, fd |-> o.fd])

\* KeventDescriptor(path, is_directory) and KeventDescriptorSet.add.
add(r, f, path, is_directory, oracle) ==
  LET p == absolute_path(path) IN
  IF p \in DOMAIN r.descriptor_for_path THEN r
  ELSE LET o == os_open(f, r.fdt, path, oracle) IN
       IF o.errno # NoneErr
         THEN [r EXCEPT !.exc = o.errno, !.failed = @ \cup {<<p, o.errno>>}]
       ELSE add_descriptor(
              [r EXCEPT !.fdt = Put(@, o.fd, [ino |-> f[p].ino, reg |-> FALSE, notes |-> {}])],
              [path |-> p, is_directory |-> is_directory, fd |-> o.fd])

remove(r, path) ==
  LET p == absolute_path(path) IN
  IF p \in DOMAIN r.descriptor_for_path
    THEN remove_descriptor(r, r.descriptor_for_path[p])
    ELSE r

clear_mut(r) ==
  [r EXCEPT
     !.descriptors = {},
     !.descriptor_for_fd = EmptyMap,
     !.descriptor_for_path = EmptyMap,
     !.kevents = <<>>]

clear(r) ==
  [r EXCEPT
     !.fdt = [fd \in DOMAIN @ \ {d.fd : d \in r.descriptors} |-> @[fd]],
     !.descriptors = {},
     !.descriptor_for_fd = EmptyMap,
     !.descriptor_for_path = EmptyMap,
     !.kevents = <<>>,
     !.rebound = TRUE]

\* ----------------------------------------------- KqueueEmitter bookkeeping
\* except OSError as e: errno ENOENT and EOPNOTSUPP are ignored, others re-raised.
ignore_errnos(r) ==
  IF r.exc \in {"ENOENT", "EOPNOTSUPP"} THEN [r EXCEPT !.exc = NoneErr] ELSE r

register_kevent_mut(r, f, path, is_directory, oracle) ==
  add(r, f, path, is_directory, oracle)

register_kevent(r, f, path, is_directory, oracle) ==
  ignore_errnos(add(r, f, path, is_directory, oracle))

unregister_kevent(r, path) == remove(r, path)

\* Events: FileSystemEvent.event_type, is_directory, src_path, dest_path.
Ev(t, isdir, src, dest) ==
  [event_type |-> t, is_directory |-> isdir, src_path |-> src, dest_path |-> dest]
Created(isdir, p) == Ev("created", isdir, p, NoPath)
Deleted(isdir, p) == Ev("deleted", isdir, p, NoPath)
Modified(isdir, p) == Ev("modified", isdir, p, NoPath)
Moved(isdir, p, q) == Ev("moved", isdir, p, q)

\* EventEmitter.queue_event puts the event on the event queue.
put_event(r, event) == [r EXCEPT !.queued = Append(@, event)]

\* Statements run one after the other: g is skipped once r holds an exception.
register_after(r, f, path, is_directory, oracle) ==
  IF r.exc # NoneErr THEN r ELSE register_kevent(r, f, path, is_directory, oracle)

queue_event_mut(r, f, event, oracle) ==
  IF event.event_type \in {"created", "moved"}
    THEN register_kevent(put_event(r, event), f,
                         IF event.event_type = "moved" THEN event.dest_path
                         ELSE event.src_path,
                         event.is_directory, oracle)
  ELSE IF event.event_type = "deleted"
    THEN unregister_kevent(put_event(r, event), event.src_path)
  ELSE put_event(r, event)

\* KqueueEmitter.queue_event(event).
queue_event(r, f, event, oracle) ==
  IF event.event_type = "created"
    THEN register_kevent(put_event(r, event), f, event.src_path,
                         event.is_directory, oracle)
  ELSE IF event.event_type = "moved"
    THEN register_after(unregister_kevent(put_event(r, event), event.src_path),
                        f, event.dest_path, event.is_directory, oracle)
  ELSE IF event.event_type = "deleted"
    THEN unregister_kevent(put_event(r, event), event.src_path)
  ELSE put_event(r, event)

RECURSIVE queue_each(_, _, _, _)
\* for event in <events>: self.queue_event(event), up to the first exception.
queue_each(r, f, events, oracle) ==
  IF events = <<>> \/ r.exc # NoneErr THEN r
  ELSE queue_each(queue_event(r, f, Head(events), oracle), f, Tail(events), oracle)


\* ------------------------------------------------------ Python call binding
\* Argument values carry their Python type.
Str(v) == [t |-> "str", v |-> v]
Bool(v) == [t |-> "bool", v |-> v]
Func(v) == [t |-> "function", v |-> v]
Missing == [t |-> "missing", v |-> FALSE]

\* The argument a call binds to the parameter at position i named n: positional,
\* else keyword, else the default, else missing.
Arg(call, i, n, default) ==
  IF i <= Len(call.pos) THEN call.pos[i]
  ELSE IF n \in DOMAIN call.kw THEN call.kw[n]
  ELSE default

\* DirectorySnapshot.__init__(self, path, db_path, recursive=True, stat=os.stat,
\* listdir=os.scandir): a required parameter left unbound is a TypeError.
bind_snapshot(call) ==
  LET a == [path |-> Arg(call, 1, "path", Missing),
            db_path |-> Arg(call, 2, "db_path", Missing),
            recursive |-> Arg(call, 3, "recursive", Bool(TRUE)),
            stat |-> Arg(call, 4, "stat", Func("os.stat"))]
  IN  [a |-> a,
       exc |-> IF a.path.t = "missing" \/ a.db_path.t = "missing"
                 THEN "TypeError" ELSE NoneErr]

\* KqueueEmitter.__init__: DirectorySnapshot(watch.path,
\*     recursive=watch.is_recursive, stat=custom_stat)
init_snapshot_call(rec) ==
  [pos |-> <<Str(ROOT)>>, kw |-> [recursive |-> Bool(rec), stat |-> Func("custom_stat")]]

\* KqueueEmitter.queue_events: DirectorySnapshot(self.watch.path,
\*     self.watch.is_recursive)
cycle_snapshot_call(rec) ==
  [pos |-> <<Str(ROOT), Bool(rec)>>, kw |-> EmptyMap]

\* A DirectorySnapshot built by a caller that names its db file.
direct_snapshot_call(d, rec, hook) ==
  [pos |-> <<Str(ROOT), Str(d)>>, kw |-> [recursive |-> Bool(rec), stat |-> Func(hook)]]

\* ------------------------------------------------------- DirectorySnapshot
\* os.stat, or the emitter's custom_stat: stat, then register the descriptor.
stat_call(hook, r, f, path, oracle) ==
  IF ~Exists(f, path) THEN [r |-> [r EXCEPT !.exc = "ENOENT"], st |-> NoEnt]
  ELSE IF hook = "custom_stat"
    THEN [r |-> register_kevent(r, f, path, f[path].isdir, oracle), st |-> f[path]]
  ELSE [r |-> r, st |-> f[path]]

\* listdir(root), joined to root.
Children(f, d) ==
  SelectSeq(PathOrder, LAMBDA p : dirname(p) = d /\ Exists(f, p))

\* One listed path p with the outcome s of its stat call: an OSError skips the
\* entry, else its row is written and a directory is recorded for the descent.
walk_entry(w, p, s) ==
  IF s.r.exc # NoneErr
    THEN [w EXCEPT !.r = [s.r EXCEPT !.exc = NoneErr]]
    ELSE [w EXCEPT !.r = s.r,
                   !.rows = Put(@, p, s.st),
                   !.dirs = IF s.st.isdir THEN Append(@, p) ELSE @]

RECURSIVE walk_entries(_, _, _, _, _)
\* The loop over the listed paths.  w = [r, rows, dirs, stack]: descriptor
\* state, rows written, directories recorded, directories still to list.
walk_entries(w, f, hook, ps, oracle) ==
  IF ps = <<>> THEN w
  ELSE walk_entries(walk_entry(w, Head(ps), stat_call(hook, w.r, f, Head(ps), oracle)),
                    f, hook, Tail(ps), oracle)

\* After the entries of one directory: (recursive) its directories are walked
\* next, in order, before the directories left over.
walk_descend(w, recursive) ==
  [w EXCEPT !.stack = IF recursive THEN w.dirs \o @ ELSE <<>>]

RECURSIVE walk(_, _, _, _, _)
\* walk(root): the entries of root, then (recursive) the walk of each
\* directory recorded.
walk(w, f, hook, recursive, oracle) ==
  IF w.stack = <<>> THEN w
  ELSE walk(walk_descend(
              walk_entries([w EXCEPT !.dirs = <<>>, !.stack = Tail(@)], f, hook,
                           Children(f, Head(w.stack)), oracle),
              recursive),
            f, hook, recursive, oracle)

\* The rows of the walk written to table snapshot of db file d (INSERT OR
\* REPLACE: rows of paths not visited stay).
snapshot_store(w, dbv, d) ==
  [r |-> w.r,
   db |-> [dbv EXCEPT ![d] = [p \in Paths |-> IF p \in DOMAIN w.rows THEN w.rows[p]
                                              ELSE @[p]]],
   exc |-> NoneErr]

\* __init__ from the stat of the root on; s is the outcome of that stat call.
snapshot_walk(s, f, dbv, a, oracle) ==
  IF s.r.exc # NoneErr
    THEN [r |-> [s.r EXCEPT !.exc = NoneErr], db |-> dbv, exc |-> s.r.exc]
    ELSE snapshot_store(
           walk([r |-> s.r, rows |-> Put(EmptyMap, a.path.v, s.st), dirs |-> <<>>,
                 stack |-> <<a.path.v>>],
                f, a.stat.v, a.recursive.v, oracle),
           dbv, a.db_path.v)

\* DirectorySnapshot.__init__ on bound arguments: connect, create the table if it
\* is not there, stat and record the root, record every walked entry.
\* Returns [r, db, exc]; the new object is its db_path.
snapshot_init(r, f, dbv, b, oracle) ==
  IF b.exc # NoneErr THEN [r |-> r, db |-> dbv, exc |-> b.exc]
  ELSE IF b.a.db_path.t # "str" THEN [r |-> r, db |-> dbv, exc |-> "TypeError"]
  ELSE snapshot_walk(stat_call(b.a.stat.v, r, f, b.a.path.v, oracle), f, dbv, b.a, oracle)

\* Queries of the snapshot object s: they read the db file as it is now.
snap_paths(dbv, s) == {p \in Paths : dbv[s][p].ino # 0}
\* inode(path): the row, or (None, None) -- written <<0, 0>> -- never KeyError.
snap_inode(dbv, s, p) ==
  IF p \in Paths /\ dbv[s][p].ino # 0 THEN <<dbv[s][p].ino, dbv[s][p].dev>> ELSE <<0, 0>>
snap_isdir(dbv, s, p) == p \in Paths /\ dbv[s][p].ino # 0 /\ dbv[s][p].isdir
snap_mtime(dbv, s, p) == IF p \in Paths /\ dbv[s][p].ino # 0 THEN dbv[s][p].mtime ELSE -1
snap_size(dbv, s, p) == IF p \in Paths /\ dbv[s][p].ino # 0 THEN dbv[s][p].size ELSE -1
\* path(inode, device): fetchone() of the matching rows, None (NoPath) if none.
snap_path(dbv, s, ino, dev) ==
  LET hit == {p \in Paths : dbv[s][p].ino # 0 /\ dbv[s][p].ino = ino /\ dbv[s][p].dev = dev}
  IN  IF hit = {} THEN {NoPath} ELSE hit


\* ---------------------------------------------------- DirectorySnapshotDiff
compute_diff_size(dbv, prev, cur) ==
  [added |-> snap_paths(dbv, cur) \ snap_paths(dbv, prev),
   removed |-> snap_paths(dbv, prev) \ snap_paths(dbv, cur),
   modified |-> {p \in snap_paths(dbv, prev) \cap snap_paths(dbv, cur) :
                   \/ snap_inode(dbv, prev, p) # snap_inode(dbv, cur, p)
                   \/ snap_mtime(dbv, prev, p) # snap_mtime(dbv, cur, p)
                   \/ snap_size(dbv, prev, p) # snap_size(dbv, cur, p)}]

compute_diff_newer(dbv, prev, cur) ==
  [added |-> snap_paths(dbv, cur) \ snap_paths(dbv, prev),
   removed |-> snap_paths(dbv, prev) \ snap_paths(dbv, cur),
   modified |-> {p \in snap_paths(dbv, prev) \cap snap_paths(dbv, cur) :
                   \/ snap_inode(dbv, prev, p) # snap_inode(dbv, cur, p)
                   \/ snap_mtime(dbv, prev, p) < snap_mtime(dbv, cur, p)}]

\* DirectorySnapshotDiff(previous_dirsnap, current_dirsnap).compute_diff():
\* (added, removed, modified).
compute_diff(dbv, prev, cur) ==
  [added |-> snap_paths(dbv, cur) \ snap_paths(dbv, prev),
   removed |-> snap_paths(dbv, prev) \ snap_paths(dbv, cur),
   modified |-> {p \in snap_paths(dbv, prev) \cap snap_paths(dbv, cur) :
                   \/ snap_inode(dbv, prev, p) # snap_inode(dbv, cur, p)
                   \/ snap_mtime(dbv, prev, p) # snap_mtime(dbv, cur, p)}]

\* current.__sub__(previous).
snapshot_sub(dbv, cur, prev) == compute_diff(dbv, prev, cur)

\* diff_events.<name>: an attribute the object does not have is an
\* AttributeError.  The attributes are those __init__ assigns.
DiffAttributes == {"previous_dirsnap", "current_dirsnap", "added", "removed", "modified"}
diff_getattr(name) == IF name \in DiffAttributes THEN NoneErr ELSE "AttributeError"

\* ---------------------------------------------------- raw-event translation
\* new_snapshot.path(f_inode): path takes (inode, device); one positional
\* argument leaves device unbound, a TypeError.
snapshot_path_call(dbv, new, args) ==
  IF Len(args) # 2 THEN [exc |-> "TypeError", paths |-> {}]
  ELSE [exc |-> NoneErr, paths |-> snap_path(dbv, new, args[1], args[2])]

\* generate_sub_moved_events(src, dest): one Moved per entry now beneath dest.
sub_moved_events(f, src, dest) ==
  LET sub == SelectSeq(PathOrder, LAMBDA p : Below(dest, p) /\ Exists(f, p))
  IN  [i \in 1..Len(sub) |->
         Moved(f[sub[i]].isdir,
               src \o SubSeq(sub[i], Len(dest) + 1, Len(sub[i])), sub[i])]

\* _gen_renamed_events: the outcomes [events, exc] it can produce (one per row
\* fetchone may return).
gen_renamed_events(f, dbv, rec, src_path, is_directory, ref, new) ==
  LET f_inode == snap_inode(dbv, ref, src_path)
      call == snapshot_path_call(dbv, new, <<f_inode>>)
  IN  IF call.exc # NoneErr THEN {[events |-> <<>>, exc |-> call.exc]}
      ELSE {IF dest = NoPath
              THEN [events |-> <<Deleted(is_directory, src_path),
                                 Modified(TRUE, dirname(src_path))>>,
                    exc |-> NoneErr]
              ELSE [events |-> <<Moved(is_directory, src_path, absolute_path(dest)),
                                 Modified(TRUE, dirname(src_path)),
                                 Modified(TRUE, dirname(absolute_path(dest)))>>
                               \o (IF is_directory /\ rec
                                     THEN sub_moved_events(f, src_path, absolute_path(dest))
                                     ELSE <<>>),
                    exc |-> NoneErr]
            : dest \in call.paths}

One(events) == {[events |-> events, exc |-> NoneErr]}

gen_kqueue_events_mut(r, f, dbv, rec, kev, ref, new) ==
  IF kev.ident \notin DOMAIN r.descriptor_for_fd
    THEN {[events |-> <<>>, exc |-> "KeyError"]}
  ELSE LET descriptor == r.descriptor_for_fd[kev.ident]
           src_path == descriptor.path
       IN  IF "RENAME" \in kev.fflags
             THEN gen_renamed_events(f, dbv, rec, src_path, descriptor.is_directory,
                                     ref, new)
           ELSE IF "ATTRIB" \in kev.fflags
             THEN One(<<Modified(descriptor.is_directory, src_path)>>)
           ELSE IF "DELETE" \in kev.fflags
             THEN One(<<Deleted(descriptor.is_directory, src_path)>>)
           ELSE IF "EXTEND" \in kev.fflags \/ "WRITE" \in kev.fflags
             THEN IF descriptor.is_directory
                    THEN IF rec \/ ROOT = src_path
                           THEN One(<<Modified(TRUE, src_path)>>)
                           ELSE One(<<>>)
                    ELSE One(<<Modified(FALSE, src_path)>>)
           ELSE One(<<>>)

\* _gen_kqueue_events(kev, ref_snapshot, new_snapshot).
gen_kqueue_events(r, f, dbv, rec, kev, ref, new) ==
  IF kev.ident \notin DOMAIN r.descriptor_for_fd
    THEN {[events |-> <<>>, exc |-> "KeyError"]}
  ELSE LET descriptor == r.descriptor_for_fd[kev.ident]
           src_path == descriptor.path
       IN  IF "RENAME" \in kev.fflags
             THEN gen_renamed_events(f, dbv, rec, src_path, descriptor.is_directory,
                                     ref, new)
           ELSE IF "ATTRIB" \in kev.fflags
             THEN One(<<Modified(descriptor.is_directory, src_path)>>)
           ELSE IF "EXTEND" \in kev.fflags \/ "WRITE" \in kev.fflags
             THEN IF descriptor.is_directory
                    THEN IF rec \/ ROOT = src_path
                           THEN One(<<Modified(TRUE, src_path)>>)
                           ELSE One(<<>>)
                    ELSE One(<<Modified(FALSE, src_path)>>)
           ELSE IF "DELETE" \in kev.fflags
             THEN One(<<Deleted(descriptor.is_directory, src_path)>>)
           ELSE One(<<>>)

\* ------------------------------------------------------------- kernel side
\* The vnode filter notes flag on every registered fd open on inode ino.
Note(t, ino, flag) ==
  [fd \in DOMAIN t |->
     IF t[fd].ino = ino /\ t[fd].reg THEN [t[fd] EXCEPT !.notes = @ \cup {flag}]
     ELSE t[fd]]

Ready(t) == {fd \in DOMAIN t : t[fd].reg /\ t[fd].notes # {}}

\* kqueue.control(changelist, MAX_EVENTS, timeout) once it succeeds: every kevent
\* of the changelist is registered, the pending notes are handed out and cleared.
Controlled(t, changelist) ==
  [fd \in DOMAIN t |->
     [t[fd] EXCEPT !.reg = @ \/ fd \in SeqSet(changelist), !.notes = {}]]

Perms(S) ==
  {q \in [1..Cardinality(S) -> S] : \A i, j \in 1..Cardinality(S) : i # j => q[i] # q[j]}

Reverse(q) == [i \in 1..Len(q) |-> q[Len(q) + 1 - i]]

Kev(t, fd) == [ident |-> fd, fflags |-> t[fd].notes]


\* ------------------------------------------------------------------- state
IsDirPath(p) == p \in {ROOT, PS}

NoEv == Ev("none", FALSE, NoPath, NoPath)
NoKev == [ident |-> 0, fflags |-> {}]
\* threading.RLock: acquire blocks while another thread owns the lock; the owner
\* may acquire again; release gives the lock up when the count returns to 0.
Threads == {"emitter", "stopper", "caller"}
Unlocked == [owner |-> "none", count |-> 0]
can_acquire_mut(l, t) == TRUE
can_acquire(l, t) == l.count = 0 \/ l.owner = t
acquire(l, t) == [owner |-> t, count |-> l.count + 1]
release(l) == IF l.count = 1 THEN Unlocked ELSE [l EXCEPT !.count = @ - 1]

\* No list held; a held list is the object self._kevents (alias) or another one.
NoHeld == [taken |-> FALSE, alias |-> FALSE, list |-> <<>>]
NoDiff == [added |-> {}, removed |-> {}, modified |-> {}]
\* The record of the last operation: its name and, as far as it has them, the
\* event queued, the raw event translated with its descriptor's path and the two
\* snapshots, the stat hook, the outcome of the kernel read with the raw events
\* read, the opens that failed, the fds open when it was called, the diff
\* computed, and the is_directory argument.
Op(name) ==
  [name |-> name, ev |-> NoEv, kev |-> NoKev, ref |-> NoDb, new |-> NoDb,
   src |-> NoPath, hook |-> "", read |-> "", kevs |-> {}, failed |-> {},
   fds |-> {}, diff |-> NoDiff, is_directory |-> FALSE]

Init ==
  /\ fs = [p \in Paths |->
             IF p = ROOT THEN [ino |-> 1, dev |-> 1, isdir |-> TRUE, mtime |-> 0, size |-> 0]
             ELSE IF p = PS THEN [ino |-> 2, dev |-> 1, isdir |-> TRUE, mtime |-> 0, size |-> 0]
             ELSE IF p = PX THEN [ino |-> 3, dev |-> 1, isdir |-> FALSE, mtime |-> 0, size |-> 0]
             ELSE NoEnt]
  /\ nextIno = 4
  /\ fsOps = 0
  /\ fdt = EmptyMap
  /\ descriptors = {}
  /\ descriptor_for_path = EmptyMap
  /\ descriptor_for_fd = EmptyMap
  /\ kevents = <<>>
  /\ held = NoHeld
  /\ kq_open = TRUE
  /\ snapshot = NoDb
  /\ db = [d \in DbPaths |-> EmptyTable]
  /\ snaps = {}
  /\ is_recursive \in BOOLEAN
  /\ event_list = <<>>
  /\ fresh = NoDb
  /\ calls = 0
  /\ op = Op("start")
  /\ raised = NoneErr
  /\ queued = <<>>
  /\ lock = Unlocked
  /\ pc = [t \in Threads |-> "idle"]

\* append and remove change the list object self._kevents in place, so a held
\* reference to it shows the change; self._kevents = [] binds a new object and
\* leaves the held one as it is.
Install(r) ==
  /\ descriptors' = r.descriptors
  /\ descriptor_for_path' = r.descriptor_for_path
  /\ descriptor_for_fd' = r.descriptor_for_fd
  /\ kevents' = r.kevents
  /\ held' = IF r.rebound THEN [held EXCEPT !.alias = FALSE]
             ELSE IF held.alias THEN [held EXCEPT !.list = r.kevents]
             ELSE held
  /\ fdt' = r.fdt

\* ------------------------------------------------- external file-system agent
FsStep == fsOps < MaxFsOps /\ fsOps' = fsOps + 1 /\ UNCHANGED thrVars

FsCreate(p) ==
  /\ FsStep
  /\ p # ROOT /\ ~Exists(fs, p) /\ Exists(fs, dirname(p)) /\ nextIno <= MaxIno
  /\ fs' = [fs EXCEPT ![p] = [ino |-> nextIno, dev |-> 1, isdir |-> IsDirPath(p),
                              mtime |-> 0, size |-> 0]]
  /\ nextIno' = nextIno + 1
  /\ fdt' = Note(fdt, fs[dirname(p)].ino, "WRITE")
  /\ UNCHANGED <<dsVars, kq_open, snapshot, snapVars, is_recursive, event_list,
                 fresh, calls, op, raised, queued>>

FsWrite(p) ==
  /\ FsStep
  /\ Exists(fs, p) /\ ~fs[p].isdir /\ fs[p].mtime < MaxMtime
  /\ fs' = [fs EXCEPT ![p].mtime = @ + 1, ![p].size = @ + 1]
  /\ fdt' = Note(fdt, fs[p].ino, "WRITE")
  /\ UNCHANGED <<nextIno, dsVars, kq_open, snapshot, snapVars, is_recursive,
                 event_list, fresh, calls, op, raised, queued>>

FsChmod(p) ==
  /\ FsStep
  /\ Exists(fs, p)
  /\ fdt' = Note(fdt, fs[p].ino, "ATTRIB")
  /\ UNCHANGED <<fs, nextIno, dsVars, kq_open, snapshot, snapVars, is_recursive,
                 event_list, fresh, calls, op, raised, queued>>

FsDelete(p) ==
  /\ FsStep
  /\ p # ROOT /\ Exists(fs, p) /\ ~\E c \in Paths : Below(p, c) /\ Exists(fs, c)
  /\ fs' = [fs EXCEPT ![p] = NoEnt]
  /\ fdt' = Note(Note(fdt, fs[p].ino, "DELETE"), fs[dirname(p)].ino, "WRITE")
  /\ UNCHANGED <<nextIno, dsVars, kq_open, snapshot, snapVars, is_recursive,
                 event_list, fresh, calls, op, raised, queued>>

\* rename(p, q) of a file inside the tree.
FsRename(p, q) ==
  /\ FsStep
  /\ p # q /\ Exists(fs, p) /\ ~fs[p].isdir /\ ~IsDirPath(q)
  /\ ~Exists(fs, q) /\ Exists(fs, dirname(q))
  /\ fs' = [fs EXCEPT ![q] = fs[p], ![p] = NoEnt]
  /\ fdt' = Note(Note(Note(fdt, fs[p].ino, "RENAME"), fs[dirname(p)].ino, "WRITE"),
                 fs[dirname(q)].ino, "WRITE")
  /\ UNCHANGED <<nextIno, dsVars, kq_open, snapshot, snapVars, is_recursive,
                 event_list, fresh, calls, op, raised, queued>>

\* rename of p (with all beneath it) to a place outside the watch root.
FsRenameOut(p) ==
  /\ FsStep
  /\ p # ROOT /\ Exists(fs, p)
  /\ fs' = [q \in Paths |-> IF IsPrefix(p, q) THEN NoEnt ELSE fs[q]]
  /\ fdt' = Note(Note(fdt, fs[p].ino, "RENAME"), fs[dirname(p)].ino, "WRITE")
  /\ UNCHANGED <<nextIno, dsVars, kq_open, snapshot, snapVars, is_recursive,
                 event_list, fresh, calls, op, raised, queued>>

\* ------------------------------------------------------------ KqueueEmitter
Call == calls' = calls + 1

\* __init__ from the construction of the initial snapshot on; Init is the object
\* with _kq, _lock and _descriptors set.
EmitterInit(oracle) ==
  /\ op.name = "start"
  /\ Call
  /\ \E b \in {bind_snapshot(init_snapshot_call(is_recursive))} :
     \E res \in {snapshot_init(Cur, fs, db, b, oracle)} :
         /\ Install(res.r)
         /\ db' = res.db
         /\ raised' = res.exc
         /\ op' = [Op("__init__") EXCEPT !.failed = res.r.failed]
         /\ IF res.exc = NoneErr
              THEN snapshot' = b.a.db_path.v /\ snaps' = snaps \cup {b.a.db_path.v}
              ELSE UNCHANGED <<snapshot, snaps>>
  /\ queued' = <<>>
  /\ UNCHANGED <<fsVars, kq_open, is_recursive, event_list, fresh>>

ReadOutcomes == {"ok", "EBADF", "EINTR"}

\* queue_events(timeout).  read is what the kernel call does: it returns the
\* events, or fails with EBADF or with another errno.
QueueEvents(read, oracle) ==
  /\ op.name # "start"
  /\ Call
  /\ queued' = <<>>
  /\ UNCHANGED <<fsVars, kq_open, is_recursive, event_list, fresh>>
  /\ IF ~kq_open
       THEN /\ raised' = "ValueError"
            /\ op' = [Op("queue_events") EXCEPT !.read = "closed"]
            /\ UNCHANGED <<dsVars, fdt, snapshot, snapVars>>
     ELSE IF read = "EBADF"
       THEN /\ raised' = NoneErr
            /\ op' = [Op("queue_events") EXCEPT !.read = read]
            /\ UNCHANGED <<dsVars, fdt, snapshot, snapVars>>
     ELSE IF read # "ok"
       THEN /\ raised' = read
            /\ op' = [Op("queue_events") EXCEPT !.read = read]
            /\ UNCHANGED <<dsVars, fdt, snapshot, snapVars>>
     ELSE \E b \in {bind_snapshot(cycle_snapshot_call(is_recursive))} :
          \E res \in {snapshot_init([Cur EXCEPT !.fdt = Controlled(fdt, kevents)],
                                    fs, db, b, oracle)} :
              /\ Install(res.r)
              /\ db' = res.db
              /\ op' = [Op("queue_events") EXCEPT
                         !.read = read, !.failed = res.r.failed,
                         !.kevs = {Kev(fdt, fd) : fd \in Ready(fdt)}]
              /\ IF res.exc # NoneErr
                   THEN raised' = res.exc /\ UNCHANGED <<snapshot, snaps>>
                   ELSE /\ snapshot' = b.a.db_path.v
                        /\ snaps' = snaps \cup {b.a.db_path.v}
                        /\ raised' = diff_getattr("dirs_created")

\* _read_events() and event_list.reverse(), as queue_events starts.
ReadEvents ==
  /\ op.name # "start"
  /\ Call
  /\ op' = Op("_read_events")
  /\ queued' = <<>>
  /\ fresh' = NoDb
  /\ UNCHANGED <<fsVars, dsVars, kq_open, snapshot, snapVars, is_recursive>>
  /\ IF ~kq_open
       THEN raised' = "ValueError" /\ UNCHANGED <<fdt, event_list>>
       ELSE /\ raised' = NoneErr
            /\ fdt' = Controlled(fdt, kevents)
            /\ \E q \in Perms(Ready(fdt)) :
                 event_list' = Reverse([i \in 1..Len(q) |-> Kev(fdt, q[i])])

\* The body of the loop over event_list in queue_events:
\*   for event in self._gen_kqueue_events(kev, ref_snapshot, new_snapshot):
\*       self.queue_event(event)
\* new_snapshot is the snapshot taken after the read, ref_snapshot an older one.
Translate(ref, oracle) ==
  /\ op.name # "start"
  /\ Call
  /\ event_list # <<>>
  /\ ref \in snaps /\ fresh \in snaps
  /\ \E o \in gen_kqueue_events(Cur, fs, db, is_recursive, Head(event_list), ref, fresh) :
       \E r \in {queue_each(Cur, fs, o.events, oracle)} :
           /\ Install(r)
           /\ queued' = r.queued
           /\ raised' = IF r.exc # NoneErr THEN r.exc ELSE o.exc
           /\ op' = [Op("translate") EXCEPT
                      !.kev = Head(event_list), !.ref = ref, !.new = fresh,
                      !.src = IF Head(event_list).ident \in DOMAIN descriptor_for_fd
                                THEN descriptor_for_fd[Head(event_list).ident].path
                                ELSE NoPath,
                      !.failed = r.failed]
  /\ event_list' = Tail(event_list)
  /\ UNCHANGED <<fsVars, kq_open, snapshot, snapVars, is_recursive, fresh>>

\* The fflags the emitter tests, and the raw events a caller may hand to the
\* translation.
Flags == {"DELETE", "WRITE", "EXTEND", "ATTRIB", "RENAME"}
KevInputs == {[ident |-> fd, fflags |-> F] : fd \in 1..MaxFd, F \in SUBSET Flags}

\* The same loop body for any raw event kev:
\*   for event in self._gen_kqueue_events(kev, ref_snapshot, new_snapshot):
\*       self.queue_event(event)
GenKqueueEvents(kev, ref) ==
  /\ op.name # "start"
  /\ Call
  /\ ref \in snaps /\ fresh \in snaps
  /\ \E o \in gen_kqueue_events(Cur, fs, db, is_recursive, kev, ref, fresh) :
       \E r \in {queue_each(Cur, fs, o.events, NoOracle)} :
           /\ Install(r)
           /\ queued' = r.queued
           /\ raised' = IF r.exc # NoneErr THEN r.exc ELSE o.exc
           /\ op' = [Op("_gen_kqueue_events") EXCEPT
                      !.kev = kev, !.ref = ref, !.new = fresh,
                      !.src = IF kev.ident \in DOMAIN descriptor_for_fd
                                THEN descriptor_for_fd[kev.ident].path
                                ELSE NoPath,
                      !.failed = r.failed]
  /\ UNCHANGED <<fsVars, kq_open, snapshot, snapVars, is_recursive, event_list, fresh>>

EventInputs ==
  {Created(IsDirPath(p), p) : p \in Paths} \cup
  {Deleted(IsDirPath(p), p) : p \in Paths} \cup
  {Modified(IsDirPath(p), p) : p \in Paths} \cup
  {Moved(IsDirPath(p), p, q) : p, q \in {PA, PB, PX}}

\* queue_event(event).
QueueEvent(event, oracle) ==
  /\ op.name # "start"
  /\ Call
  /\ \E r \in {queue_event(Cur, fs, event, oracle)} :
         /\ Install(r)
         /\ queued' = r.queued
         /\ raised' = r.exc
         /\ op' = [Op("queue_event") EXCEPT !.ev = event, !.failed = r.failed,
                                             !.fds = DOMAIN fdt]
  /\ UNCHANGED <<fsVars, kq_open, snapshot, snapVars, is_recursive, event_list, fresh>>

\* _register_kevent(path, is_directory).
RegisterKevent(path, oracle) ==
  /\ op.name # "start"
  /\ Call
  /\ \E r \in {register_kevent(Cur, fs, path, IsDirPath(path), oracle)} :
         /\ Install(r)
         /\ queued' = r.queued
         /\ raised' = r.exc
         /\ op' = [Op("_register_kevent") EXCEPT !.src = path, !.failed = r.failed]
  /\ UNCHANGED <<fsVars, kq_open, snapshot, snapVars, is_recursive, event_list, fresh>>

\* The paths a caller hands to the descriptor set: the model's paths and another
\* spelling of /w/s/x.
SetPaths == Paths \cup {<<"w", "s", ".", "x">>}

\* KeventDescriptorSet.add(path, is_directory).
SetAdd(path, is_directory, oracle) ==
  /\ Call
  /\ \E r \in {add(Cur, fs, path, is_directory, oracle)} :
         /\ Install(r)
         /\ raised' = r.exc
         /\ op' = [Op("add") EXCEPT !.src = path, !.is_directory = is_directory,
                                    !.failed = r.failed, !.fds = DOMAIN fdt]
  /\ queued' = <<>>
  /\ UNCHANGED <<fsVars, kq_open, snapshot, snapVars, is_recursive, event_list, fresh>>

\* KeventDescriptorSet.remove(path).
SetRemove(path) ==
  /\ Call
  /\ \E r \in {remove(Cur, path)} :
         /\ Install(r)
         /\ raised' = r.exc
  /\ op' = [Op("remove") EXCEPT !.src = path, !.fds = DOMAIN fdt]
  /\ queued' = <<>>
  /\ UNCHANGED <<fsVars, kq_open, snapshot, snapVars, is_recursive, event_list, fresh>>

\* The kevents property, read by a caller that keeps the result:
\*   with self._lock: return self._kevents
SetKevents ==
  /\ Call
  /\ held' = [taken |-> TRUE, alias |-> TRUE, list |-> kevents]
  /\ op' = [Op("kevents") EXCEPT !.fds = DOMAIN fdt]
  /\ raised' = NoneErr
  /\ queued' = <<>>
  /\ UNCHANGED <<fsVars, fdt, descriptors, descriptor_for_path, descriptor_for_fd,
                 kevents, kq_open, snapshot, snapVars, is_recursive, event_list, fresh>>

\* KeventDescriptorSet.clear().
SetClear ==
  /\ Call
  /\ \E r \in {clear(Cur)} :
         /\ Install(r)
         /\ raised' = r.exc
  /\ op' = [Op("clear") EXCEPT !.fds = DOMAIN fdt]
  /\ queued' = <<>>
  /\ UNCHANGED <<fsVars, kq_open, snapshot, snapVars, is_recursive, event_list, fresh>>

\* cur - prev on two snapshot objects.
Sub(cur, prev) ==
  /\ op' = [Op("__sub__") EXCEPT !.ref = prev, !.new = cur, !.diff = snapshot_sub(db, cur, prev)]
  /\ raised' = NoneErr
  /\ queued' = <<>>
  /\ UNCHANGED <<fsVars, fdt, dsVars, kq_open, snapshot, snapVars, is_recursive,
                 event_list, fresh, calls>>

\* queue_events from ref_snapshot = self._snapshot to the end of the three loops
\* over the diff, new_snapshot given:
\*   self._snapshot = new_snapshot; diff_events = new_snapshot - ref_snapshot
\*   for directory_created in diff_events.dirs_created: ...
\* The first attribute read raises before any loop runs.
DiffPhase(new) ==
  /\ snapshot' = new
  /\ op' = [Op("diff_events") EXCEPT !.ref = snapshot, !.new = new,
                                     !.diff = snapshot_sub(db, new, snapshot)]
  /\ raised' = diff_getattr("dirs_created")
  /\ queued' = <<>>
  /\ UNCHANGED <<fsVars, fdt, dsVars, kq_open, snapVars, is_recursive, event_list,
                 fresh, calls>>

\* on_thread_stop().
OnThreadStop ==
  /\ op.name # "start"
  /\ Call
  /\ \E r \in {clear(Cur)} : Install(r)
  /\ kq_open' = FALSE
  /\ op' = [Op("on_thread_stop") EXCEPT !.fds = DOMAIN fdt]
  /\ raised' = NoneErr
  /\ queued' = <<>>
  /\ UNCHANGED <<fsVars, snapshot, snapVars, is_recursive, event_list, fresh>>

\* self._kq.close() in on_thread_stop.
KqClose ==
  /\ Call
  /\ kq_open' = FALSE
  /\ op' = [Op("close") EXCEPT !.fds = DOMAIN fdt]
  /\ raised' = NoneErr
  /\ queued' = <<>>
  /\ UNCHANGED <<fsVars, fdt, dsVars, snapshot, snapVars, is_recursive, event_list, fresh>>

\* DirectorySnapshot(watch.path, d, recursive=rec, stat=hook) by a caller that
\* names the db file; hook is os.stat or the emitter's custom_stat.
SnapshotNew(d, rec, hook, oracle) ==
  /\ op.name # "start"
  /\ Call
  /\ \E res \in {snapshot_init(Cur, fs, db,
                               bind_snapshot(direct_snapshot_call(d, rec, hook)),
                               oracle)} :
         /\ Install(res.r)
         /\ db' = res.db
         /\ raised' = res.exc
         /\ snaps' = IF res.exc = NoneErr THEN snaps \cup {d} ELSE snaps
         /\ fresh' = IF res.exc = NoneErr THEN d ELSE fresh
         /\ op' = [Op("snapshot") EXCEPT !.new = d, !.hook = hook, !.failed = res.r.failed]
  /\ queued' = <<>>
  /\ UNCHANGED <<fsVars, kq_open, snapshot, is_recursive, event_list>>

\* The opens the platform may fail: of a path that exists (it vanishes after the
\* stat, or it is a special file).
OraclesNow == {o \in Oracles : o.path = NoPath \/ Exists(fs, o.path)}
OraclesFor(event) ==
  IF event.event_type = "created"
    THEN {o \in OraclesNow : o.path \in {NoPath, event.src_path}}
  ELSE IF event.event_type = "moved"
    THEN {o \in OraclesNow : o.path \in {NoPath, event.dest_path}}
  ELSE {NoOracle}

FsNext ==
  \/ \E p \in Paths : FsCreate(p)
  \/ \E p \in Paths : FsWrite(p)
  \/ \E p \in Paths : FsChmod(p)
  \/ \E p \in Paths : FsDelete(p)
  \/ \E p, q \in Paths : FsRename(p, q)
  \/ \E p \in Paths : FsRenameOut(p)

\* The emitter's methods, called on the emitter as __init__ left it.
Next ==
  \/ FsNext
  \/ calls < MaxCalls /\ UNCHANGED thrVars /\ EmitterInit(NoOracle)
  \/ calls < MaxCalls /\ UNCHANGED thrVars /\ \E read \in ReadOutcomes : QueueEvents(read, NoOracle)
  \/ calls < MaxCalls /\ UNCHANGED thrVars /\ \E event \in EventInputs : \E oracle \in OraclesFor(event) :
       QueueEvent(event, oracle)
  \/ calls < MaxCalls /\ UNCHANGED thrVars /\ OnThreadStop

Spec == Init /\ [][Next]_vars

\* _register_kevent called on its own, with the opens the platform may fail.
RegisterNext ==
  \/ FsNext
  \/ calls < MaxCalls /\ UNCHANGED thrVars /\ EmitterInit(NoOracle)
  \/ calls < MaxCalls /\ UNCHANGED thrVars /\ \E p \in Paths : \E oracle \in OraclesFor(Created(FALSE, p)) :
       RegisterKevent(p, oracle)

SpecRegister == Init /\ [][RegisterNext]_vars

\* The steps queue_events is written to take, taken one by one in its order on
\* snapshots whose constructor call names a db file: the initial snapshot with
\* custom_stat, then per cycle the kernel read, the new snapshot with os.stat
\* and the loop over the raw events, which an exception ends.
StepNext ==
  \/ FsNext
  \/ calls < MaxSteps /\ UNCHANGED thrVars /\ EmitterInit(NoOracle)
  \/ calls < MaxSteps /\ UNCHANGED thrVars /\ snaps = {}
       /\ \E oracle \in OraclesNow :
            SnapshotNew("db1", is_recursive, "custom_stat", oracle)
  \/ calls < MaxSteps /\ UNCHANGED thrVars /\ snaps # {} /\ ReadEvents
  \/ calls < MaxSteps /\ UNCHANGED thrVars /\ op.name = "_read_events" /\ raised = NoneErr
       /\ \E d \in DbPaths : SnapshotNew(d, is_recursive, "os.stat", NoOracle)
  \/ calls < MaxSteps /\ UNCHANGED thrVars /\ op.name \in {"snapshot", "translate"} /\ raised = NoneErr
       /\ \E ref \in DbPaths : Translate(ref, NoOracle)

SpecSteps == Init /\ [][StepNext]_vars

\* ---------------------------------------------------------------- threads
\* queue_events on the emitter thread, statement by statement (the snapshot
\* constructed on a db file):  with self._lock:
QeEnter ==
  /\ pc["emitter"] = "idle" /\ snaps # {}
  /\ can_acquire(lock, "emitter")
  /\ lock' = acquire(lock, "emitter")
  /\ pc' = [pc EXCEPT !["emitter"] = "read"]
  /\ UNCHANGED progVars

\* event_list = self._read_events(timeout); event_list.reverse()
QeRead ==
  /\ pc["emitter"] = "read"
  /\ ReadEvents
  /\ pc' = [pc EXCEPT !["emitter"] = IF raised' = NoneErr THEN "snapshot" ELSE "exit"]
  /\ UNCHANGED lock

\* new_snapshot = DirectorySnapshot(...)
QeSnapshot ==
  /\ pc["emitter"] = "snapshot"
  /\ \E d \in DbPaths : SnapshotNew(d, is_recursive, "os.stat", NoOracle)
  /\ pc' = [pc EXCEPT !["emitter"] = IF raised' = NoneErr THEN "loop" ELSE "exit"]
  /\ UNCHANGED lock

\* for kev in event_list: for event in ...: self.queue_event(event)
QeTranslate ==
  /\ pc["emitter"] = "loop"
  /\ \E ref \in DbPaths : Translate(ref, NoOracle)
  /\ pc' = [pc EXCEPT !["emitter"] = IF raised' = NoneErr THEN "loop" ELSE "exit"]
  /\ UNCHANGED lock

\* The end of the with block, reached at the end of the loop or by an exception.
QeExit ==
  /\ pc["emitter"] = "exit" \/ (pc["emitter"] = "loop" /\ event_list = <<>>)
  /\ lock' = release(lock)
  /\ pc' = [pc EXCEPT !["emitter"] = "idle"]
  /\ UNCHANGED progVars

\* on_thread_stop on the thread that stops the emitter:  with self._lock:
StopEnter ==
  /\ pc["stopper"] = "idle" /\ op.name # "start"
  /\ can_acquire(lock, "stopper")
  /\ lock' = acquire(lock, "stopper")
  /\ pc' = [pc EXCEPT !["stopper"] = "clear"]
  /\ UNCHANGED progVars

\* self._descriptors.clear()
StopClear ==
  /\ pc["stopper"] = "clear"
  /\ SetClear
  /\ pc' = [pc EXCEPT !["stopper"] = "close"]
  /\ UNCHANGED lock

\* self._kq.close()
StopClose ==
  /\ pc["stopper"] = "close"
  /\ KqClose
  /\ pc' = [pc EXCEPT !["stopper"] = "exit"]
  /\ UNCHANGED lock

StopExit ==
  /\ pc["stopper"] = "exit"
  /\ lock' = release(lock)
  /\ pc' = [pc EXCEPT !["stopper"] = "done"]
  /\ UNCHANGED progVars

\* queue_event(event) called once by a thread of its own: the method takes no
\* lock.
CallerQueueEvent(event) ==
  /\ pc["caller"] = "idle"
  /\ QueueEvent(event, NoOracle)
  /\ pc' = [pc EXCEPT !["caller"] = "done"]
  /\ UNCHANGED lock

\* The emitter thread runs cycles, another thread stops the emitter, and a
\* third calls queue_event with the Created event of a file, while files of
\* the tree are written.
ThreadsNext ==
  \/ \E p \in Paths : FsWrite(p)
  \/ calls < MaxThreadSteps /\ UNCHANGED thrVars /\ EmitterInit(NoOracle)
  \/ calls < MaxThreadSteps /\ UNCHANGED thrVars /\ snaps = {}
       /\ SnapshotNew("db1", is_recursive, "custom_stat", NoOracle)
  \/ QeEnter
  \/ calls < MaxThreadSteps /\ QeRead
  \/ calls < MaxThreadSteps /\ QeSnapshot
  \/ calls < MaxThreadSteps /\ QeTranslate
  \/ QeExit
  \/ StopEnter
  \/ calls < MaxThreadSteps /\ StopClear
  \/ calls < MaxThreadSteps /\ StopClose
  \/ StopExit
  \/ calls < MaxThreadSteps /\ \E p \in {PA, PX} : CallerQueueEvent(Created(FALSE, p))

SpecThreads == Init /\ [][ThreadsNext]_vars

\* A KeventDescriptorSet used on its own: add, remove, clear and kevents in any
\* order,
\* on paths that exist (/w, /w/s, /w/s/x) and paths that do not, with the opens
\* the platform may fail.
SetNext ==
  \/ calls < MaxSetCalls /\ UNCHANGED thrVars
       /\ \E path \in SetPaths : \E is_directory \in BOOLEAN :
            \E oracle \in OraclesFor(Created(FALSE, absolute_path(path))) :
              SetAdd(path, is_directory, oracle)
  \/ calls < MaxSetCalls /\ UNCHANGED thrVars /\ \E path \in SetPaths : SetRemove(path)
  \/ calls < MaxSetCalls /\ UNCHANGED thrVars /\ SetClear
  \/ calls < MaxSetCalls /\ UNCHANGED thrVars /\ SetKevents

SpecSet == Init /\ [][SetNext]_vars

\* The translation of one raw event called on its own, with any fd and any
\* combination of fflags, on snapshots built with either stat hook.  The
\* translation reads the descriptor set and the snapshots only: the tree stays
\* as it is.
XlateNext ==
  \/ calls < MaxXlate /\ UNCHANGED thrVars /\ EmitterInit(NoOracle)
  \/ calls < MaxXlate /\ UNCHANGED thrVars
       /\ \E d \in DbPaths : \E hook \in {"custom_stat", "os.stat"} :
            SnapshotNew(d, is_recursive, hook, NoOracle)
  \/ calls < MaxXlate /\ UNCHANGED thrVars
       /\ \E kev \in KevInputs : \E ref \in DbPaths : GenKqueueEvents(kev, ref)

SpecTranslate == Init /\ [][XlateNext]_vars

\* Snapshot tables for the diff: /w is always there, /w/a is absent or a file
\* with any inode, device, mtime and size, /w/s is absent or a directory and
\* /w/s/x absent or a file.
DiffRows ==
  {NoEnt} \cup
  {[ino |-> i, dev |-> d, isdir |-> FALSE, mtime |-> m, size |-> z] :
     i \in {MaxIno - 1, MaxIno}, d \in {1, 2}, m \in 0..MaxMtime, z \in 0..MaxMtime}
DiffTables ==
  {[p \in Paths |->
      IF p = ROOT THEN [ino |-> 1, dev |-> 1, isdir |-> TRUE, mtime |-> 0, size |-> 0]
      ELSE IF p = PA THEN a
      ELSE IF p = PS /\ s THEN [ino |-> 2, dev |-> 1, isdir |-> TRUE, mtime |-> 0, size |-> 0]
      ELSE IF p = PX /\ x THEN [ino |-> 3, dev |-> 1, isdir |-> FALSE, mtime |-> 0, size |-> 0]
      ELSE NoEnt] : a \in DiffRows, s \in BOOLEAN, x \in BOOLEAN}

\* Two snapshot objects with any tables, on an emitter otherwise as constructed.
DiffInit ==
  /\ fs = [p \in Paths |-> IF p = ROOT THEN [ino |-> 1, dev |-> 1, isdir |-> TRUE,
                                              mtime |-> 0, size |-> 0]
                           ELSE NoEnt]
  /\ nextIno = MaxIno + 1
  /\ fsOps = MaxFsOps
  /\ fdt = EmptyMap
  /\ descriptors = {}
  /\ descriptor_for_path = EmptyMap
  /\ descriptor_for_fd = EmptyMap
  /\ kevents = <<>>
  /\ held = NoHeld
  /\ kq_open = TRUE
  /\ snapshot \in DbPaths
  /\ db \in [DbPaths -> DiffTables]
  /\ snaps = DbPaths
  /\ is_recursive = TRUE
  /\ event_list = <<>>
  /\ fresh = NoDb
  /\ calls = 0
  /\ op = Op("__init__")
  /\ raised = NoneErr
  /\ queued = <<>>
  /\ lock = Unlocked
  /\ pc = [t \in Threads |-> "idle"]

\* new_snapshot - ref_snapshot, and the diff phase of queue_events given the
\* two snapshots.
DiffNext ==
  \/ UNCHANGED thrVars /\ \E prev, cur \in DbPaths : Sub(cur, prev)
  \/ UNCHANGED thrVars /\ \E new \in DbPaths : DiffPhase(new)

SpecDiff == DiffInit /\ [][DiffNext]_vars

\* queue_event and on_thread_stop called on their own, with the opens the
\* platform may fail.
BookNext ==
  \/ FsNext
  \/ calls < MaxBook /\ UNCHANGED thrVars /\ EmitterInit(NoOracle)
  \/ calls < MaxBook /\ UNCHANGED thrVars /\ \E event \in EventInputs : \E oracle \in OraclesFor(event) :
       QueueEvent(event, oracle)
  \/ calls < MaxBook /\ UNCHANGED thrVars /\ OnThreadStop

SpecBook == Init /\ [][BookNext]_vars

C4_EventsInsideRoot ==
  op.name = "translate" =>
    /\ \A i \in 1..Len(queued) :
         /\ InRoot(queued[i].src_path)
         /\ queued[i].event_type = "moved" => InRoot(queued[i].dest_path)
    /\ ( /\ "RENAME" \in op.kev.fflags
         /\ op.src \in snap_paths(db, op.ref)
         /\ \A q \in snap_paths(db, op.new) :
              snap_inode(db, op.new, q) # snap_inode(db, op.ref, op.src) )
       => /\ \E i \in 1..Len(queued) :
               /\ queued[i].event_type = "deleted"
               /\ queued[i].src_path = op.src
          /\ \A i \in 1..Len(queued) : queued[i].event_type # "moved"

\* C5: a queue_events cycle whose kernel read reports only WRITE/EXTEND on the
\* descriptor of a watched file (the file was written once since the last
\* cycle) queues FileModified for that file exactly once.
C5_ModifiedExactlyOnce ==
  (op.name = "queue_events" /\ op.read = "ok") =>
    \A kev \in op.kevs :
      ( /\ kev.fflags # {} /\ kev.fflags \subseteq {"WRITE", "EXTEND"}
        /\ kev.ident \in DOMAIN descriptor_for_fd
        /\ ~descriptor_for_fd[kev.ident].is_directory )
      => Cardinality({i \in 1..Len(queued) :
                        queued[i] = Modified(FALSE, descriptor_for_fd[kev.ident].path)}) = 1

C7_RenamedOutDirReleased ==
  ( /\ op.name = "translate"
    /\ "RENAME" \in op.kev.fflags
    /\ op.src = PS
    /\ {PS, PX} \subseteq snap_paths(db, op.ref)
    /\ \A q \in snap_paths(db, op.new) :
         snap_inode(db, op.new, q) # snap_inode(db, op.ref, PS) )
  => /\ \E i \in 1..Len(queued) : queued[i] = Deleted(TRUE, PS)
     /\ \E i \in 1..Len(queued) : queued[i] = Modified(TRUE, ROOT)
     /\ event_list = <<>> =>
          /\ \A p \in DOMAIN descriptor_for_path : ~IsPrefix(PS, p)
          /\ \A fd \in DOMAIN fdt :
               fdt[fd].ino \notin {db[op.ref][p].ino : p \in {PS, PX}}

C9_OpenFailed ==
  /\ op.name = "_register_kevent"
  /\ \E e \in OpenErrnos : <<absolute_path(op.src), e>> \in op.failed

\* C9: a call of _register_kevent whose open fails with ENOENT or EOPNOTSUPP
\* raises nothing, queues no event, and leaves the descriptor set (its
\* collections, its kevent list and the open fds) as it was.
C9_IgnoredOpenFailure ==
  [][ ( /\ calls' = calls + 1
        /\ op'.name = "_register_kevent"
        /\ \E e \in OpenErrnos : <<absolute_path(op'.src), e>> \in op'.failed )
      => /\ raised' = NoneErr
         /\ queued' = <<>>
         /\ UNCHANGED <<dsVars, fdt>> ]_vars

\* C10: a queue_events cycle whose kernel read fails with EBADF raises nothing,
\* queues nothing and leaves the saved snapshot and the descriptor set as they
\* were; a cycle whose read fails with another errno raises it; and the cycle
\* that follows an EBADF cycle, its read succeeding, completes without raising.
C10_EbadfCycleIgnored ==
  [][ (calls' = calls + 1 /\ op'.name = "queue_events") =>
        /\ op'.read = "EBADF" =>
             raised' = NoneErr /\ queued' = <<>> /\ UNCHANGED <<snapshot, dsVars>>
        /\ op'.read \notin {"ok", "EBADF", "closed"} => raised' = op'.read
        /\ (op.name = "queue_events" /\ op.read = "EBADF" /\ op'.read = "ok") =>
             raised' = NoneErr ]_vars

\* C11 (witness): on_thread_stop has been called while descriptors held open fds.
C11_StoppedWithDescriptors ==
  op.name = "on_thread_stop" /\ op.fds # {}

\* C11: once on_thread_stop has returned, the descriptor set is empty in its
\* set, its two indices and its kevent list, every fd that was open in a
\* descriptor is closed, and the kqueue is closed.
C11_StopReleasesAll ==
  op.name = "on_thread_stop" =>
    /\ raised = NoneErr
    /\ descriptors = {}
    /\ DOMAIN descriptor_for_path = {}
    /\ DOMAIN descriptor_for_fd = {}
    /\ kevents = <<>>
    /\ \A fd \in op.fds : fd \notin DOMAIN fdt
    /\ ~kq_open

\* C12 (witness): a diff has been taken in which a path is added and /w/a, in
\* both snapshots with the same inode, device and mtime, differs in size only.
C12_SizeOnlyChange ==
  /\ op.name = "__sub__"
  /\ op.diff.added # {}
  /\ PA \in snap_paths(db, op.ref) \cap snap_paths(db, op.new)
  /\ snap_inode(db, op.ref, PA) = snap_inode(db, op.new, PA)
  /\ snap_mtime(db, op.ref, PA) = snap_mtime(db, op.new, PA)
  /\ snap_size(db, op.ref, PA) # snap_size(db, op.new, PA)

\* C12: the diff current - previous has added = paths(current) \ paths(previous),
\* removed = paths(previous) \ paths(current), modified = the paths in both
\* whose (inode, device) or mtime differs (size plays no part), and the three
\* sets are pairwise disjoint.
C12_DiffSets ==
  op.name = "__sub__" =>
    LET P == {p \in Paths : db[op.ref][p].ino # 0}
        C == {p \in Paths : db[op.new][p].ino # 0}
    IN  /\ op.diff.added = C \ P
        /\ op.diff.removed = P \ C
        /\ op.diff.modified =
             {p \in P \cap C :
                \/ <<db[op.ref][p].ino, db[op.ref][p].dev>>
                     # <<db[op.new][p].ino, db[op.new][p].dev>>
                \/ db[op.ref][p].mtime # db[op.new][p].mtime}
        /\ op.diff.added \cap op.diff.removed = {}
        /\ op.diff.added \cap op.diff.modified = {}
        /\ op.diff.removed \cap op.diff.modified = {}

\* C13 (witness): a diff of two different snapshots has been taken that has an
\* added and a modified path.
C13_DiffNotEmpty ==
  /\ op.name = "__sub__" /\ op.ref # op.new
  /\ op.diff.added # {} /\ op.diff.modified # {}

\* C13: the diff A - B and the diff B - A are inverse: added and removed are
\* swapped and modified is the same.
C13_DiffInverse ==
  op.name = "__sub__" =>
    /\ op.diff.added = snapshot_sub(db, op.ref, op.new).removed
    /\ op.diff.removed = snapshot_sub(db, op.ref, op.new).added
    /\ op.diff.modified = snapshot_sub(db, op.ref, op.new).modified

\* C19: the diff phase of a cycle raises nothing and queues exactly one
\* DirCreated per added path that is a directory in the current snapshot, one
\* FileCreated per other added path and one FileModified per modified path that
\* is not a directory in the current snapshot.
C19_DiffEventsQueued ==
  op.name = "diff_events" =>
    LET Count(e) == Cardinality({i \in 1..Len(queued) : queued[i] = e})
    IN  /\ raised = NoneErr
        /\ \A p \in op.diff.added :
             Count(Created(snap_isdir(db, op.new, p), p)) = 1
        /\ \A p \in op.diff.modified :
             ~snap_isdir(db, op.new, p) => Count(Modified(FALSE, p)) = 1

\* C20 (witness): queue_event has handled a Moved event whose src_path had a
\* descriptor: dest_path has one now and src_path has none.
C20_MovedBookkept ==
  /\ op.name = "queue_event" /\ op.ev.event_type = "moved"
  /\ op.ev.src_path # op.ev.dest_path
  /\ op.fds # {} /\ op.failed = {}
  /\ op.ev.dest_path \in DOMAIN descriptor_for_path
  /\ op.ev.src_path \notin DOMAIN descriptor_for_path

\* C20: queue_event puts the event on the queue and then does the bookkeeping of
\* its type: after Created src_path has a descriptor unless its open failed;
\* after Moved (to another path) src_path has none and dest_path has one unless
\* its open failed; after Deleted src_path has none; Modified leaves the
\* descriptor set and the open fds as they were.
C20_QueueEventBookkeeping ==
  [][(op'.name = "queue_event" /\ calls' = calls + 1) =>
       /\ queued' = <<op'.ev>>
       /\ op'.ev.event_type = "created" /\ op'.failed = {} =>
            op'.ev.src_path \in DOMAIN descriptor_for_path'
       /\ op'.ev.event_type = "moved" /\ op'.ev.src_path # op'.ev.dest_path =>
            op'.ev.src_path \notin DOMAIN descriptor_for_path'
       /\ op'.ev.event_type = "moved" /\ op'.failed = {} =>
            op'.ev.dest_path \in DOMAIN descriptor_for_path'
       /\ op'.ev.event_type = "deleted" =>
            op'.ev.src_path \notin DOMAIN descriptor_for_path'
       /\ op'.ev.event_type = "modified" =>
            UNCHANGED <<descriptors, descriptor_for_path, descriptor_for_fd,
                        kevents, fdt>>]_vars

C16_UnknownFdDropped ==
  (op.name = "_gen_kqueue_events" /\ op.src = NoPath)
  => (raised = NoneErr /\ queued = <<>>)

\* C17: the translation of a RENAME raw event whose src_path has no entry in
\* the reference snapshot queues the Created and then the Deleted event of the
\* descriptor's kind for src_path, and nothing else.
C17_RenameOfUnknownPath ==
  (/\ op.name = "translate" /\ "RENAME" \in op.kev.fflags
   /\ op.src # NoPath /\ op.src \notin snap_paths(db, op.ref))
  => queued = <<Created(IsDirPath(op.src), op.src), Deleted(IsDirPath(op.src), op.src)>>

\* C18 (witness): a raw event with ATTRIB, WRITE and DELETE set on the
\* descriptor of a file has been translated to one FileModified.
C18_AttribBeforeDelete ==
  /\ op.name = "_gen_kqueue_events"
  /\ op.kev.fflags = {"ATTRIB", "WRITE", "DELETE"}
  /\ op.src # NoPath
  /\ queued = <<Modified(FALSE, op.src)>>

\* C18: the translation of a raw event of a known descriptor takes one branch,
\* by the priority RENAME, ATTRIB, WRITE/EXTEND, DELETE: with RENAME the outcome
\* is that of rename reconciliation alone; else with ATTRIB one Modified of the
\* descriptor's kind; else with WRITE or EXTEND FileModified for a file and
\* DirModified for a directory if the watch is recursive or the path is the
\* root, else nothing; else with DELETE one Deleted of the descriptor's kind;
\* with none of the flags nothing.
C18_TranslationPriority ==
  [][(/\ op'.name = "_gen_kqueue_events" /\ calls' = calls + 1
      /\ op'.kev.ident \in DOMAIN descriptor_for_fd) =>
       LET F == op'.kev.fflags
           d == descriptor_for_fd[op'.kev.ident]
       IN  IF "RENAME" \in F
             THEN \E o \in gen_renamed_events(fs, db, is_recursive, d.path,
                                               d.is_directory, op'.ref, op'.new) :
                    queued' = o.events /\ raised' = o.exc
           ELSE IF "ATTRIB" \in F
             THEN queued' = <<Modified(d.is_directory, d.path)>>
           ELSE IF F \cap {"WRITE", "EXTEND"} # {}
             THEN queued' = IF ~d.is_directory THEN <<Modified(FALSE, d.path)>>
                            ELSE IF is_recursive \/ d.path = ROOT
                              THEN <<Modified(TRUE, d.path)>>
                            ELSE <<>>
           ELSE IF "DELETE" \in F
             THEN queued' = <<Deleted(d.is_directory, d.path)>>
           ELSE queued' = <<>>]_vars

\* C21 (witness): after a removal a descriptor has been added that got the fd
\* the removal freed: it is last in the kevent list, behind a higher fd.
C21_AddedAfterRemoval ==
  /\ op.name = "add" /\ raised = NoneErr
  /\ Len(kevents) = 2 /\ kevents[1] > kevents[2]

\* C21: after every add, remove and clear the descriptor collection, the path
\* index, the fd index and the kevent list describe the same descriptors: each
\* descriptor is in both indices under its own path and fd, there is one
\* descriptor per path, and the kevent list holds the descriptors' kevents once
\* each in insertion order (a step keeps the order of the kevents that stay and
\* puts a new one last).
C21_IndicesConsistent ==
  [][/\ \A d \in descriptors' :
          /\ d.path \in DOMAIN descriptor_for_path' /\ descriptor_for_path'[d.path] = d
          /\ d.fd \in DOMAIN descriptor_for_fd' /\ descriptor_for_fd'[d.fd] = d
     /\ \A p \in DOMAIN descriptor_for_path' :
          descriptor_for_path'[p] \in descriptors' /\ descriptor_for_path'[p].path = p
     /\ \A fd \in DOMAIN descriptor_for_fd' :
          descriptor_for_fd'[fd] \in descriptors' /\ descriptor_for_fd'[fd].fd = fd
     /\ \A d, e \in descriptors' : d.path = e.path => d = e
     /\ Len(kevents') = Cardinality(descriptors')
     /\ {kevents'[i] : i \in 1..Len(kevents')} = {d.fd : d \in descriptors'}
     /\ LET kept == SelectSeq(kevents, LAMBDA fd : fd \in DOMAIN descriptor_for_fd')
        IN  SubSeq(kevents', 1, Len(kept)) = kept]_vars

\* C22 (witness): remove has closed the fd of the descriptor it dropped while
\* another descriptor stays in the set.
C22_RemoveClosedFd ==
  /\ op.name = "remove" /\ descriptors # {}
  /\ \E fd \in op.fds : fd \notin DOMAIN fdt

\* C22: the fds the descriptor set has opened and not closed are exactly the fds
\* of the descriptors in the set, and no two descriptors share an fd.
C22_OpenFdsAreDescriptors ==
  /\ DOMAIN fdt = {d.fd : d \in descriptors}
  /\ \A d, e \in descriptors : d.fd = e.fd => d = e

\* C23 (witness): add has been called with is_directory true on a path that is
\* in the set as a file.
C23_AddPresentOtherKind ==
  /\ op.name = "add" /\ op.is_directory
  /\ absolute_path(op.src) \in DOMAIN descriptor_for_path
  /\ ~descriptor_for_path[absolute_path(op.src)].is_directory
  /\ op.fds = DOMAIN fdt

\* C23: add on a path whose normalized form is in the set changes nothing and
\* opens no fd, whatever is_directory is; add on an absent path whose open fails
\* raises the error of the open and leaves the indices, the kevent list and
\* the open fds as they were.
C23_AddNoOpOrPropagates ==
  [][(op'.name = "add" /\ calls' = calls + 1) =>
       /\ absolute_path(op'.src) \in DOMAIN descriptor_for_path =>
            /\ raised' = NoneErr
            /\ UNCHANGED <<descriptors, descriptor_for_path, descriptor_for_fd,
                           kevents, fdt>>
       /\ op'.failed # {} =>
            /\ \E pe \in op'.failed : pe[1] = absolute_path(op'.src) /\ raised' = pe[2]
            /\ UNCHANGED <<descriptors, descriptor_for_path, descriptor_for_fd,
                           kevents, fdt>>]_vars

\* C27: what a constructed snapshot answers (paths, inode, path, mtime, size,
\* isdir, all read from its rows) never changes after its construction, whatever
\* is constructed or changed later.
C27_SnapshotImmutable ==
  [][\A s \in snaps : \A p \in Paths : db'[s][p] = db[s][p]]_vars

\* C28: a snapshot just constructed with os.stat holds the root and every entry
\* the walk reaches (the direct entries of the root, and with recursive true
\* everything beneath it), and no other path.
C28_SnapshotIsTheWalk ==
  (op.name = "snapshot" /\ op.hook = "os.stat" /\ raised = NoneErr)
  => snap_paths(db, op.new)
       = {p \in Paths : Exists(fs, p) /\ (is_recursive \/ Len(p) <= Len(ROOT) + 1)}

\* C29: the translation of a RENAME raw event of a path that is in the reference
\* snapshot and whose inode is at another path of the new snapshot queues the
\* Moved event to that path and no Created event for it.
C29_MovedNotCreated ==
  (/\ op.name = "translate" /\ "RENAME" \in op.kev.fflags
   /\ op.src \in snap_paths(db, op.ref) /\ op.src \notin snap_paths(db, op.new))
  => \A q \in snap_paths(db, op.new) :
       snap_inode(db, op.new, q) = snap_inode(db, op.ref, op.src) =>
         /\ \E i \in 1..Len(queued) :
              queued[i] = Moved(IsDirPath(op.src), op.src, q)
         /\ \A i \in 1..Len(queued) :
              ~(queued[i].event_type = "created" /\ queued[i].src_path = q)

\* C24: a list a caller got from the kevents property is not changed by a later
\* add or remove on the set.
C24_KeventsIsACopy ==
  [][(held.taken /\ op'.name \in {"add", "remove"}) => held'.list = held.list]_vars

\* C25 (witness): the stopping thread has entered on_thread_stop after a cycle
\* queued its last event and left queue_events.
C25_StopAfterCycle ==
  /\ pc["stopper"] = "clear" /\ pc["emitter"] = "idle"
  /\ op.name = "translate" /\ queued # <<>>

\* C25: a thread is inside queue_events (from the kernel read to the last event
\* queued) or inside on_thread_stop only while it owns the emitter's lock, so
\* the two are never inside at the same time.
C25_CycleExcludesStop ==
  /\ pc["emitter"] # "idle" => lock.owner = "emitter"
  /\ pc["stopper"] \in {"clear", "close", "exit"} => lock.owner = "stopper"
  /\ ~(pc["emitter"] # "idle" /\ pc["stopper"] \in {"clear", "close", "exit"})

\* C26: the registration a queue_event call makes never runs while
\* on_thread_stop holds the emitter's lock.
C26_QueueEventExcludesStop ==
  [][(op'.name = "queue_event" /\ calls' = calls + 1)
       => pc["stopper"] \notin {"clear", "close", "exit"}]_vars

====
